---- MODULE Spec2Model ----
(***************************************************************************)
(* ScreenSharePermissionDialog: the screen-capture permission request and  *)
(* the classification of its failures.                                     *)
(*                                                                         *)
(* JavaScript runs each task to completion, so one action is one task: the *)
(* synchronous part of requestScreenShare up to its await, or the          *)
(* continuation after the platform settled the promise. The order of the   *)
(* side effects inside a task is kept in the call's trace.                 *)
(***************************************************************************)
EXTENDS Integers, Sequences, FiniteSets, TLC

VARIABLES navigator, isRequesting, error, errorOwner, calls, lastCompleted,
          onPermissionGranted, effectDep, probe

vars == <<navigator, isRequesting, error, errorOwner, calls, lastCompleted,
          onPermissionGranted, effectDep, probe>>

\* Bounds of the model.
MaxCalls == 3
MaxProps == 2

ERROR_TYPES ==
  [HTTPS |-> "https", NOT_SUPPORTED |-> "not-supported",
   PERMISSION |-> "permission", GENERAL |-> "general"]

\* useState<ErrorInfo | null>(null): the null value of the error state.
NoError == [type |-> "null", message |-> <<>>]

\* navigator.mediaDevices and navigator.mediaDevices.getDisplayMedia, as
\* presence flags; getDisplayMedia is a member of mediaDevices.
Navigators ==
  { [mediaDevices |-> FALSE, getDisplayMedia |-> FALSE],
    [mediaDevices |-> TRUE,  getDisplayMedia |-> FALSE],
    [mediaDevices |-> TRUE,  getDisplayMedia |-> TRUE] }

\* The names an exception can carry: the six the switch knows, one DOMException
\* name it does not know, and the names of built-in errors.
KnownNames ==
  {"NotAllowedError", "NotFoundError", "NotReadableError",
   "OverconstrainedError", "SecurityError", "AbortError"}

ExceptionNames == KnownNames \cup {"InvalidStateError", "TypeError"}

\* Values a catch clause can receive: a DOMException, an Error that is not a
\* DOMException, a plain object with a name property, null, a string.
RawFailures ==
  [kind : {"DOMException", "Error", "object"}, name : ExceptionNames]
    \cup { [kind |-> "Error", name |-> "Error"],
           [kind |-> "null", name |-> ""],
           [kind |-> "string", name |-> ""] }

\* new Error("NOT_SUPPORTED")
NotSupportedThrown == [kind |-> "Error", name |-> "Error"]

\* The TypeError of calling addEventListener on undefined.
TypeErrorThrown == [kind |-> "Error", name |-> "TypeError"]

Nothing == [kind |-> "none", name |-> ""]

\* getErrorInfo dispatching on the name of whatever was thrown, without the
\* instanceof DOMException test.
getErrorInfo_ByName(nav, err) ==
  IF ~nav.mediaDevices
  THEN [type |-> ERROR_TYPES.HTTPS,
        message |-> <<"Screen", "sharing", "requires", "a", "secure", "connection", "(HTTPS)">>]
  ELSE IF ~nav.getDisplayMedia
  THEN [type |-> ERROR_TYPES.NOT_SUPPORTED,
        message |-> <<"Screen", "sharing", "not", "supported", "in", "this", "browser">>]
  ELSE IF err.name = "NotAllowedError"
  THEN [type |-> ERROR_TYPES.PERMISSION, message |-> <<"Screen", "sharing", "access", "denied">>]
  ELSE IF err.name # ""
  THEN [type |-> ERROR_TYPES.GENERAL, message |-> <<"Screen", "sharing", "error:", err.name>>]
  ELSE [type |-> ERROR_TYPES.GENERAL, message |-> <<"Failed", "to", "access", "screen">>]

\* getErrorInfo looking at the exception before the environment.
getErrorInfo_NameFirst(nav, err) ==
  IF err.kind = "DOMException" /\ err.name = "NotAllowedError"
  THEN [type |-> ERROR_TYPES.PERMISSION, message |-> <<"Screen", "sharing", "access", "denied">>]
  ELSE IF ~nav.mediaDevices
  THEN [type |-> ERROR_TYPES.HTTPS,
        message |-> <<"Screen", "sharing", "requires", "a", "secure", "connection", "(HTTPS)">>]
  ELSE IF ~nav.getDisplayMedia
  THEN [type |-> ERROR_TYPES.NOT_SUPPORTED,
        message |-> <<"Screen", "sharing", "not", "supported", "in", "this", "browser">>]
  ELSE [type |-> ERROR_TYPES.GENERAL, message |-> <<"Failed", "to", "access", "screen">>]

\* Messages are kept as their sequence of words.
getErrorInfo(nav, err) ==
  IF ~nav.mediaDevices
  THEN [type |-> ERROR_TYPES.HTTPS,
        message |-> <<"Screen", "sharing", "requires", "a", "secure", "connection", "(HTTPS)">>]
  ELSE IF ~nav.getDisplayMedia
  THEN [type |-> ERROR_TYPES.NOT_SUPPORTED,
        message |-> <<"Screen", "sharing", "not", "supported", "in", "this", "browser">>]
  ELSE IF err.kind = "DOMException"
  THEN CASE err.name = "NotAllowedError" ->
              [type |-> ERROR_TYPES.PERMISSION,
               message |-> <<"Screen", "sharing", "access", "denied">>]
         [] err.name = "NotFoundError" ->
              [type |-> ERROR_TYPES.GENERAL,
               message |-> <<"No", "screen", "available", "for", "sharing">>]
         [] err.name = "NotReadableError" ->
              [type |-> ERROR_TYPES.GENERAL,
               message |-> <<"Screen", "is", "already", "being", "captured">>]
         [] err.name = "OverconstrainedError" ->
              [type |-> ERROR_TYPES.GENERAL,
               message |-> <<"Screen", "doesn't", "meet", "capture", "requirements">>]
         [] err.name = "SecurityError" ->
              [type |-> ERROR_TYPES.HTTPS,
               message |-> <<"Security", "error", "accessing", "screen">>]
         [] err.name = "AbortError" ->
              [type |-> ERROR_TYPES.PERMISSION,
               message |-> <<"Screen", "sharing", "was", "cancelled">>]
         [] OTHER ->
              [type |-> ERROR_TYPES.GENERAL,
               message |-> <<"Screen", "sharing", "error:", err.name>>]
  ELSE [type |-> ERROR_TYPES.GENERAL,
        message |-> <<"Failed", "to", "access", "screen">>]

\* The guard testing navigator.mediaDevices only.
HasGetDisplayMedia_SurfaceOnly(nav) == nav.mediaDevices

\* !navigator.mediaDevices?.getDisplayMedia is false
HasGetDisplayMedia(nav) == nav.mediaDevices /\ nav.getDisplayMedia

NoStream == [id |-> 0, videoTracks |-> 0, listeners |-> 0]

\* One invocation of requestScreenShare.
NewCall(trigger, cb) ==
  [trigger |-> trigger, cb |-> cb, pc |-> "start", trace |-> <<>>,
   stream |-> NoStream, delivered |-> <<>>, cbReturned |-> FALSE,
   errorInfo |-> NoError, thrown |-> Nothing]

\* The component's state during one task of invocation id: the two useState
\* cells, the invocation, and which invocation set the error shown.
Frame(id, call) ==
  [id |-> id, isRequesting |-> isRequesting, error |-> error,
   errorOwner |-> errorOwner, call |-> call]

\* The prologue clearing the error before it raises the flag.
Begin_FlagLate(s) ==
  [s EXCEPT !.isRequesting = TRUE, !.error = NoError, !.errorOwner = 0,
            !.call.trace = @ \o <<"setError(null)", "setIsRequesting(true)">>]

\* setIsRequesting(true); setError(null);
Begin(s) ==
  [s EXCEPT !.isRequesting = TRUE, !.error = NoError, !.errorOwner = 0,
            !.call.trace = @ \o <<"setIsRequesting(true)", "setError(null)">>]

\* if (!navigator.mediaDevices?.getDisplayMedia) throw new Error("NOT_SUPPORTED");
\* const stream = await navigator.mediaDevices.getDisplayMedia(DISPLAY_CONSTRAINTS);
Guard(s, nav) ==
  IF ~HasGetDisplayMedia(nav)
  THEN [s EXCEPT !.call.thrown = NotSupportedThrown]
  ELSE [s EXCEPT !.call.trace = @ \o <<"getDisplayMedia">>, !.call.pc = "awaiting"]

\* The rest of the try block once the promise resolved with a stream:
\* stream.getVideoTracks()[0].addEventListener('ended', ...); onPermissionGranted(stream);
\* cbThrown is what the callback throws, Nothing when it returns.
TryRest(s, stream, cbThrown) ==
  IF stream.videoTracks = 0
  THEN [s EXCEPT !.call.stream = stream, !.call.thrown = TypeErrorThrown]
  ELSE [s EXCEPT !.call.stream = [stream EXCEPT !.listeners = @ + 1],
                 !.call.trace = @ \o <<"addEventListener", "onPermissionGranted">>,
                 !.call.delivered = @ \o <<stream.id>>,
                 !.call.cbReturned = (cbThrown = Nothing),
                 !.call.thrown = cbThrown]

\* catch (err) { const errorInfo = getErrorInfo(err); setError(errorInfo); ... }
Catch(s, nav) ==
  IF s.call.thrown = Nothing THEN s
  ELSE LET errorInfo == getErrorInfo(nav, s.call.thrown) IN
       [s EXCEPT !.error = errorInfo, !.errorOwner = s.id,
                 !.call.errorInfo = errorInfo,
                 !.call.thrown = Nothing,
                 !.call.trace = @ \o <<"setError(errorInfo)">>]

\* A finally block that leaves the flag as it is.
Finally_KeepFlag(s) ==
  [s EXCEPT !.call.pc = "done"]

\* finally { setIsRequesting(false); }
Finally(s) ==
  [s EXCEPT !.isRequesting = FALSE,
            !.call.trace = @ \o <<"setIsRequesting(false)">>,
            !.call.pc = "done"]

\* Write a finished task back to the component.
Commit(s) ==
  /\ isRequesting' = s.isRequesting
  /\ error' = s.error
  /\ errorOwner' = s.errorOwner
  /\ calls' = IF s.id > Len(calls) THEN Append(calls, s.call)
              ELSE [calls EXCEPT ![s.id] = s.call]
  /\ lastCompleted' = IF s.call.pc = "done" THEN s.id ELSE lastCompleted

\* requestScreenShare() up to its await, or to its end when the guard throws.
requestScreenShare(trigger) ==
  /\ Len(calls) < MaxCalls
  /\ LET s0 == Frame(Len(calls) + 1, NewCall(trigger, onPermissionGranted))
         s1 == Guard(Begin(s0), navigator)
     IN  IF s1.call.pc = "awaiting" THEN Commit(s1)
         ELSE Commit(Finally(Catch(s1, navigator)))

\* useEffect(() => { requestScreenShare(); }, [requestScreenShare]): runs after
\* the first render and after a render in which requestScreenShare, hence
\* onPermissionGranted, is a new function.
RunEffect ==
  /\ effectDep # onPermissionGranted
  /\ requestScreenShare(IF effectDep = 0 THEN "mount" ELSE "effect")
  /\ effectDep' = onPermissionGranted
  /\ UNCHANGED <<navigator, onPermissionGranted, probe>>

\* The parent renders the dialog again with a new onPermissionGranted function.
ParentRerender ==
  /\ effectDep = onPermissionGranted
  /\ onPermissionGranted < MaxProps
  /\ onPermissionGranted' = onPermissionGranted + 1
  /\ UNCHANGED <<navigator, isRequesting, error, errorOwner, calls,
                 lastCompleted, effectDep, probe>>

\* The Try Again button is rendered under {error && errorStyling && ...} and
\* carries disabled={isRequesting}.
RetryEnabled == error # NoError /\ ~isRequesting

\* A click is handled after the pending effect of the last render has run.
RetryClick ==
  /\ RetryEnabled
  /\ effectDep = onPermissionGranted
  /\ requestScreenShare("retry")
  /\ UNCHANGED <<navigator, onPermissionGranted, effectDep, probe>>

\* What the platform or the callback can throw in the model of the component.
Rejections ==
  [kind : {"DOMException"}, name : KnownNames \cup {"InvalidStateError"}]
    \cup {TypeErrorThrown}

CallbackThrows == {Nothing, TypeErrorThrown, [kind |-> "string", name |-> ""]}

\* getDisplayMedia resolves: the continuation of invocation i after the await.
PlatformResolve(i, videoTracks, cbThrown) ==
  /\ calls[i].pc = "awaiting"
  /\ LET stream == [id |-> i, videoTracks |-> videoTracks, listeners |-> 0]
         s1 == TryRest(Frame(i, calls[i]), stream, cbThrown)
     IN  Commit(Finally(Catch(s1, navigator)))
  /\ UNCHANGED <<navigator, onPermissionGranted, effectDep, probe>>

\* getDisplayMedia rejects: the await throws err.
PlatformReject(i, err) ==
  /\ calls[i].pc = "awaiting"
  /\ LET s1 == [Frame(i, calls[i]) EXCEPT !.call.thrown = err]
     IN  Commit(Finally(Catch(s1, navigator)))
  /\ UNCHANGED <<navigator, onPermissionGranted, effectDep, probe>>

NoProbe == [err |-> Nothing, info |-> NoError, applied |-> FALSE]

Init ==
  /\ navigator \in Navigators
  /\ isRequesting = FALSE
  /\ error = NoError
  /\ errorOwner = 0
  /\ calls = <<>>
  /\ lastCompleted = 0
  /\ onPermissionGranted = 1
  /\ effectDep = 0
  /\ probe = NoProbe

Next ==
  \/ RunEffect
  \/ ParentRerender
  \/ RetryClick
  \/ \E i \in 1..Len(calls), v \in {0, 1}, t \in CallbackThrows : PlatformResolve(i, v, t)
  \/ \E i \in 1..Len(calls), e \in Rejections : PlatformReject(i, e)

Spec == Init /\ [][Next]_vars

\* getErrorInfo on its own: every environment, every value a catch can receive.
ClassifyInit ==
  /\ navigator \in Navigators
  /\ isRequesting = FALSE
  /\ error = NoError
  /\ errorOwner = 0
  /\ calls = <<>>
  /\ lastCompleted = 0
  /\ onPermissionGranted = 1
  /\ effectDep = 0
  /\ probe \in [err : RawFailures, info : {NoError}, applied : {FALSE}]

Classify ==
  /\ ~probe.applied
  /\ probe' = [probe EXCEPT !.info = getErrorInfo(navigator, probe.err),
                            !.applied = TRUE]
  /\ UNCHANGED <<navigator, isRequesting, error, errorOwner, calls,
                 lastCompleted, onPermissionGranted, effectDep>>

ClassifyNext == Classify

ClassifySpec == ClassifyInit /\ [][ClassifyNext]_vars

(***************************************************************************)
(* Vocabulary of the properties.                                           *)
(***************************************************************************)

Lower(w) ==
  CASE w = "Screen" -> "screen"
    [] w = "No" -> "no"
    [] w = "Security" -> "security"
    [] w = "Failed" -> "failed"
    [] OTHER -> w

\* The message contains the phrase, letter case aside.
Contains(message, phrase) ==
  \E k \in 0..(Len(message) - Len(phrase)) :
    \A j \in 1..Len(phrase) : Lower(message[k + j]) = phrase[j]

Categories ==
  {ERROR_TYPES.HTTPS, ERROR_TYPES.NOT_SUPPORTED, ERROR_TYPES.PERMISSION, ERROR_TYPES.GENERAL}

\* The table of section 4.2: exception name -> category and phrase.
Table(name) ==
  CASE name = "NotAllowedError" -> [type |-> ERROR_TYPES.PERMISSION, phrase |-> <<"access", "denied">>]
    [] name = "AbortError" -> [type |-> ERROR_TYPES.PERMISSION, phrase |-> <<"cancelled">>]
    [] name = "NotFoundError" -> [type |-> ERROR_TYPES.GENERAL, phrase |-> <<"no", "screen", "available">>]
    [] name = "NotReadableError" -> [type |-> ERROR_TYPES.GENERAL, phrase |-> <<"already", "being", "captured">>]
    [] name = "OverconstrainedError" -> [type |-> ERROR_TYPES.GENERAL, phrase |-> <<"doesn't", "meet", "capture", "requirements">>]
    [] name = "SecurityError" -> [type |-> ERROR_TYPES.HTTPS, phrase |-> <<"security", "error", "accessing", "screen">>]
    [] OTHER -> [type |-> ERROR_TYPES.GENERAL, phrase |-> <<name>>]

Generic(info) ==
  info.type = ERROR_TYPES.GENERAL /\ Contains(info.message, <<"failed", "to", "access">>)

AgreesWithTable(info, name) ==
  info.type = Table(name).type /\ Contains(info.message, Table(name).phrase)

Full == navigator.mediaDevices /\ navigator.getDisplayMedia

Pos(trace, e) == IF \E k \in 1..Len(trace) : trace[k] = e
                 THEN CHOOSE k \in 1..Len(trace) : trace[k] = e
                 ELSE 0

Count(trace, e) == Cardinality({k \in 1..Len(trace) : trace[k] = e})

InFlight == {i \in 1..Len(calls) : calls[i].pc = "awaiting"}

\* The invocation handed its stream to onPermissionGranted, which returned.
GrantedCall(c) ==
  c.pc = "done" /\ c.stream.id # 0 /\ c.delivered = <<c.stream.id>> /\ c.cbReturned

\* The invocation set a ClassifiedError.

FailedCall(c) == c.pc = "done" /\ c.errorInfo # NoError

\* The status the presentation layer derives from the two state cells.
Status ==
  IF isRequesting THEN "Requesting"
  ELSE IF error # NoError THEN "Failed"
  ELSE IF \E i \in 1..Len(calls) : GrantedCall(calls[i]) THEN "Granted"
  ELSE "Idle"

(***************************************************************************)
(* C1 as stated: with mediaDevices and getDisplayMedia present, every      *)
(* failure that carries one of the six names gets the table's category and *)
(* phrase, every failure carrying another name gets General with the name  *)
(* in the message, and a failure without a name gets the generic General   *)
(* message; the category is always one of the four.                        *)
(***************************************************************************)
C1_AsStated ==
  (probe.applied /\ Full) =>
    /\ probe.info.type \in Categories
    /\ IF probe.err.name # ""
       THEN AgreesWithTable(probe.info, probe.err.name)
       ELSE Generic(probe.info)

(***************************************************************************)
(* C1 amended: the table is applied to DOMException instances only. A      *)
(* DOMException with one of the six names gets the table's category and    *)
(* phrase, a DOMException with another name gets General with the name in  *)
(* the message, and every value that is not a DOMException (null, a        *)
(* string, an Error or object whatever its name) gets the generic General  *)
(* message; the category is always one of the four.                        *)
(***************************************************************************)
C1_Classify ==
  (probe.applied /\ Full) =>
    /\ probe.info.type \in Categories
    /\ IF probe.err.kind = "DOMException"
       THEN AgreesWithTable(probe.info, probe.err.name)
       ELSE Generic(probe.info)

C1_Witness ==
  /\ probe.applied /\ Full
  /\ probe.err = [kind |-> "DOMException", name |-> "OverconstrainedError"]
  /\ probe.info.type = ERROR_TYPES.GENERAL

(***************************************************************************)
(* C2: the environment checks come first. Whatever the failure carries,    *)
(* the result is SecureContextRequired (https) when mediaDevices is absent *)
(* and Unsupported (not-supported) when only getDisplayMedia is absent.    *)
(***************************************************************************)
C2_EnvironmentFirst ==
  probe.applied =>
    /\ ~navigator.mediaDevices => probe.info.type = ERROR_TYPES.HTTPS
    /\ (navigator.mediaDevices /\ ~navigator.getDisplayMedia) =>
          probe.info.type = ERROR_TYPES.NOT_SUPPORTED

C2_Witness ==
  /\ probe.applied
  /\ navigator.mediaDevices /\ ~navigator.getDisplayMedia
  /\ probe.err = [kind |-> "DOMException", name |-> "NotAllowedError"]
  /\ probe.info.type = ERROR_TYPES.NOT_SUPPORTED

(***************************************************************************)
(* C3: at most one capture request is in flight at any time.               *)
(***************************************************************************)
C3_OneInFlight == Cardinality(InFlight) <= 1

AutoCalls == {i \in 1..Len(calls) : calls[i].trigger \in {"mount", "effect"}}

C5_OnlyRetry ==
  [][ /\ (Status = "Failed" /\ Status' = "Requesting") =>
            calls'[Len(calls')].trigger = "retry"
      /\ Cardinality(AutoCalls') <= 1 ]_vars

(***************************************************************************)
(* C6: without mediaDevices, or without getDisplayMedia, an invocation     *)
(* never calls getDisplayMedia and ends at once in Failed, with category   *)
(* https in the first case and not-supported in the second.                *)
(***************************************************************************)
C6_FailFast ==
  ~Full =>
    /\ \A i \in 1..Len(calls) :
         /\ calls[i].pc = "done"
         /\ Count(calls[i].trace, "getDisplayMedia") = 0
         /\ calls[i].stream = NoStream
         /\ calls[i].errorInfo.type =
              IF ~navigator.mediaDevices THEN ERROR_TYPES.HTTPS ELSE ERROR_TYPES.NOT_SUPPORTED
    /\ Len(calls) > 0 =>
         /\ Status = "Failed"
         /\ error.type = IF ~navigator.mediaDevices THEN ERROR_TYPES.HTTPS ELSE ERROR_TYPES.NOT_SUPPORTED

C6_Witness ==
  /\ navigator.mediaDevices /\ ~navigator.getDisplayMedia
  /\ Len(calls) >= 2
  /\ calls[2].trigger = "retry"
  /\ error.type = ERROR_TYPES.NOT_SUPPORTED

(***************************************************************************)
(* C7: an invocation clears the error before it calls the platform, and    *)
(* an error in state was set by the invocation that completed last.        *)
(***************************************************************************)
C7_ErrorOfLastAttempt ==
  /\ \A i \in 1..Len(calls) :
       Pos(calls[i].trace, "getDisplayMedia") # 0 =>
         /\ Pos(calls[i].trace, "setError(null)") # 0
         /\ Pos(calls[i].trace, "setError(null)") < Pos(calls[i].trace, "getDisplayMedia")
  /\ error # NoError => errorOwner = lastCompleted

(***************************************************************************)
(* C8: when the platform resolved with a stream that has a video track,    *)
(* the invocation ends Granted: one 'ended' listener on the track, the     *)
(* callback called once with that stream, no error set by the invocation,  *)
(* the flag cleared.                                                       *)
(***************************************************************************)
C8_ApprovedIsGranted ==
  \A i \in 1..Len(calls) :
       (calls[i].pc = "done" /\ calls[i].stream.videoTracks > 0) =>
         /\ calls[i].stream.listeners = 1
         /\ calls[i].delivered = <<calls[i].stream.id>>
         /\ calls[i].errorInfo = NoError
         /\ Count(calls[i].trace, "setIsRequesting(false)") = 1

(***************************************************************************)
(* C9: every failure is caught and classified. When an invocation ends     *)
(* with a failure, nothing thrown escapes it, and right then the error is  *)
(* set to its classification, the flag is cleared and Try Again is         *)
(* enabled; the status stays Failed until a new invocation starts.         *)
(***************************************************************************)
Completes(i) == i <= Len(calls) /\ calls[i].pc = "awaiting" /\ calls'[i].pc = "done"

C9_FailuresCaught ==
  [][ /\ \A i \in 1..Len(calls') :
           /\ calls'[i].thrown = Nothing
           /\ (calls'[i].pc = "done" /\ (i > Len(calls) \/ Completes(i))
                 /\ ~GrantedCall(calls'[i])) =>
                /\ error' = calls'[i].errorInfo
                /\ error' # NoError
                /\ error'.type \in Categories
                /\ ~isRequesting'
                /\ RetryEnabled'
      /\ (Status = "Failed" /\ Status' # "Failed") => Len(calls') > Len(calls) ]_vars

C9_Witness ==
  /\ Status = "Failed"
  /\ RetryEnabled
  /\ \E i \in 1..Len(calls) : FailedCall(calls[i]) /\ calls[i].stream.id # 0
  /\ \E i \in 1..Len(calls) :
       FailedCall(calls[i]) /\ Count(calls[i].trace, "getDisplayMedia") = 1 /\ calls[i].stream.id = 0

(***************************************************************************)
(* C10: no invocation both hands the stream to onPermissionGranted and     *)
(* sets a ClassifiedError.                                                 *)
(***************************************************************************)
C10_Exclusive ==
  \A i \in 1..Len(calls) :
    ~(Len(calls[i].delivered) > 0 /\ calls[i].errorInfo # NoError)

====
